---- MODULE Spec2Model ----
(***************************************************************************)
(* Model of the backup-recovery suite: the rule-based file classifier of   *)
(* BackupOrchestrator (scripts/backup_orchestrator.py) and the snapshot    *)
(* lifecycle of LocalBackupManager (scripts/local_backup_manager.py).      *)
(*                                                                         *)
(* A path is a sequence of segments, a segment is a sequence of one-letter *)
(* strings, so that lower-casing, substring search, suffix extraction and  *)
(* glob matching are computed letter by letter as the code computes them.  *)
(***************************************************************************)
EXTENDS Integers, Sequences, FiniteSets, TLC

VARIABLES
    files,            \* classifier: the discovered file list handed to _classify_data
    rules,            \* classifier: config['classification'] (keywords, extensions, patterns)
    classification,   \* classifier: the dict _classify_data returned, or NotClassified
    orch,             \* orchestrator: its tier settings, profiles, backup_id, stats, and
                      \*   what its most recent backup_profile call did and returned
    world,            \* orchestrator: the files on disk and the faults of the environment
    config,           \* local manager: the configuration dict of LocalBackupManager
    now,              \* wall clock, in ticks
    dirs,             \* backup_dir/<id>/ : NoDir or the directory's files and metadata
    zips,             \* backup_dir/<id>.zip : NoZip or the archive's entries and mtime
    target,           \* the restore target directory
    orig,             \* history: per id, the source bytes behind each stored file at its copy
    last,             \* history: what the most recent operation did and returned
    nbackups,         \* history: the number of backup_files calls so far
    procs             \* concurrent calls on one backup directory: per call its position
                      \*   in the code and its local variables

vars == <<files, rules, classification, orch, world,
          config, now, dirs, zips, target, orig, last, nbackups, procs>>

classifierVars == <<files, rules, classification>>
orchVars == <<orch, world>>
managerVars == <<config, now, dirs, zips, target, orig, last, nbackups>>

(***************************************************************************)
(* Bounds                                                                  *)
(***************************************************************************)
MaxFiles == 2        \* longest file list handed to backup_files
MaxClassFiles == 3   \* longest file list handed to _classify_data
MaxBackups == 2      \* backup_files calls in one behaviour of Spec
MaxClock == 3        \* the clock stops here
TicksPerDay == 2     \* clock ticks in one day of retention_days
MaxListing == 2      \* most files on disk under a profile's directory
MaxRuns == 2         \* backup_profile calls on one orchestrator
MaxIds == 3          \* calls of _generate_backup_id in one behaviour
MaxIdTicks == 7      \* half seconds the id clock runs

(***************************************************************************)
(* Strings as letter sequences                                             *)
(***************************************************************************)
Str1(a) == <<a>>

\* str.lower() on one letter; only the upper-case letters of the alphabet change
LowerChar(c) ==
    CASE c = "S" -> "s"
      [] c = "E" -> "e"
      [] c = "C" -> "c"
      [] c = "K" -> "k"
      [] c = "Y" -> "y"
      [] OTHER -> c

\* str.lower()
Lower(s) == [i \in 1..Len(s) |-> LowerChar(s[i])]

\* `needle in hay` for strings
Contains(hay, needle) ==
    \E i \in 0..(Len(hay) - Len(needle)) :
        \A j \in 1..Len(needle) : hay[i + j] = needle[j]

\* str(PurePosixPath) of an absolute path: "/" + "/".join(segments)
RECURSIVE JoinSegs(_)
JoinSegs(segs) ==
    IF segs = <<>> THEN <<>>
    ELSE IF Len(segs) = 1 THEN Head(segs)
    ELSE Head(segs) \o <<"/">> \o JoinSegs(Tail(segs))

PathStr(p) == <<"/">> \o JoinSegs(p)

\* PurePath.name
Name(p) == p[Len(p)]

\* str.rfind('.') as a 1-based index, 0 when there is no dot
LastDot(s) ==
    LET ds == {i \in 1..Len(s) : s[i] = "."}
    IN  IF ds = {} THEN 0 ELSE CHOOSE i \in ds : \A j \in ds : j <= i

\* PurePath.suffix: the last dot and what follows it, unless the dot leads or ends the name
Suffix(p) ==
    LET n == Name(p)
        k == LastDot(n)
    IN  IF k > 1 /\ k < Len(n) THEN SubSeq(n, k, Len(n)) ELSE <<>>

\* fnmatch.fnmatchcase with the wildcard "*"
RECURSIVE FnMatch(_, _)
FnMatch(n, pat) ==
    IF pat = <<>> THEN n = <<>>
    ELSE IF Head(pat) = "*"
         THEN FnMatch(n, Tail(pat)) \/ (n # <<>> /\ FnMatch(Tail(n), pat))
         ELSE n # <<>> /\ Head(n) = Head(pat) /\ FnMatch(Tail(n), Tail(pat))

\* PurePath.parts of an absolute path: the root and then the segments
Parts(p) == <<Str1("/")>> \o p

\* PurePath.match with a relative pattern: the pattern's parts are matched
\* against the path's last parts, right to left
PathMatch(p, pat) ==
    LET ps == Parts(p)
    IN  /\ Len(pat) <= Len(ps)
        /\ \A i \in 1..Len(pat) :
              FnMatch(ps[Len(ps) - Len(pat) + i], pat[i])

(***************************************************************************)
(* Classifier: BackupOrchestrator._classify_data                           *)
(***************************************************************************)
\* the value of `classification` before _classify_data has returned
NotClassified == [returned |-> FALSE]

\* The file paths the classifier is run on (cf. the test_files fixture):
\* /d/sec.ky  /d/cf.js  /d/n.tx  /sec/cf.js  /d/cf.KY  /d/SEC.tx
ClassPaths ==
    { << <<"d">>, <<"s","e","c",".","k","y">> >>,
      << <<"d">>, <<"c","f",".","j","s">> >>,
      << <<"d">>, <<"n",".","t","x">> >>,
      << <<"s","e","c">>, <<"c","f",".","j","s">> >>,
      << <<"d">>, <<"c","f",".","K","Y">> >>,
      << <<"d">>, <<"S","E","C",".","t","x">> >> }

\* classification.sensitive.keywords: "sec", "SEC"
KeywordChoices == { <<"s","e","c">>, <<"S","E","C">> }
\* classification.sensitive.file_extensions: ".ky"
ExtensionChoices == { <<".","k","y">> }
\* classification.critical.patterns: "**/cf*", "*.js"
PatternChoices == { << <<"*","*">>, <<"c","f","*">> >>, << <<"*",".","j","s">> >> }

RuleSets ==
    [keywords : SUBSET KeywordChoices,
     file_extensions : SUBSET ExtensionChoices,
     patterns : SUBSET PatternChoices]

SeqsUpTo(S, n) == UNION {[1..k -> S] : k \in 0..n}

\* is_sensitive: a keyword occurs in the lower-cased path string, or the
\* lower-cased suffix is a configured extension
IsSensitive(f, r) ==
    \/ \E kw \in r.keywords : Contains(Lower(PathStr(f)), kw)
    \/ Lower(Suffix(f)) \in r.file_extensions

\* is_critical: the path matches a configured critical pattern
IsCritical(f, r) == \E pat \in r.patterns : PathMatch(f, pat)

EmptyClassification ==
    [aws_primary |-> <<>>, proton_sensitive |-> <<>>, local_airgapped |-> <<>>]

\* a plausible slip: the else branch appends to aws_primary without asking is_sensitive
ClassifyFile_NoSensitiveGuard(cl, f, r) ==
    LET s == IsSensitive(f, r)
        c == IsCritical(f, r)
    IN  [proton_sensitive |-> IF s THEN Append(cl.proton_sensitive, f) ELSE cl.proton_sensitive,
         aws_primary      |-> Append(cl.aws_primary, f),
         local_airgapped  |-> IF c THEN Append(cl.local_airgapped, f) ELSE cl.local_airgapped]

\* a plausible slip: critical handled in an elif, so a sensitive file never reaches local
ClassifyFile_Elif(cl, f, r) ==
    LET s == IsSensitive(f, r)
        c == IsCritical(f, r)
    IN  [proton_sensitive |-> IF s THEN Append(cl.proton_sensitive, f) ELSE cl.proton_sensitive,
         aws_primary      |-> IF ~s THEN Append(cl.aws_primary, f) ELSE cl.aws_primary,
         local_airgapped  |-> IF ~s /\ c THEN Append(cl.local_airgapped, f) ELSE cl.local_airgapped]

\* a plausible slip: the default to aws_primary is left out, so a file that is
\* neither sensitive nor critical reaches no tier
ClassifyFile_NoDefault(cl, f, r) ==
    LET s == IsSensitive(f, r)
        c == IsCritical(f, r)
    IN  [proton_sensitive |-> IF s THEN Append(cl.proton_sensitive, f) ELSE cl.proton_sensitive,
         aws_primary      |-> IF c THEN Append(cl.aws_primary, f) ELSE cl.aws_primary,
         local_airgapped  |-> IF c THEN Append(cl.local_airgapped, f) ELSE cl.local_airgapped]

\* the body of the loop over files: the appends made for one file
ClassifyFile(cl, f, r) ==
    LET s == IsSensitive(f, r)
        c == IsCritical(f, r)
    IN  [proton_sensitive |-> IF s THEN Append(cl.proton_sensitive, f) ELSE cl.proton_sensitive,
         aws_primary      |-> IF c THEN Append(cl.aws_primary, f)
                              ELSE IF ~s THEN Append(cl.aws_primary, f)
                              ELSE cl.aws_primary,
         local_airgapped  |-> IF c THEN Append(cl.local_airgapped, f) ELSE cl.local_airgapped]

\* _classify_data: the loop, in list order, starting from three empty lists
RECURSIVE ClassifyFrom(_, _, _)
ClassifyFrom(cl, fs, r) ==
    IF fs = <<>> THEN cl
    ELSE ClassifyFrom(ClassifyFile(cl, Head(fs), r), Tail(fs), r)

ClassifyData(fs, r) == ClassifyFrom(EmptyClassification, fs, r)

\* the elements of a list
Range(s) == {s[i] : i \in 1..Len(s)}

(***************************************************************************)
(* Local manager: values of the state                                      *)
(***************************************************************************)
\* an absent path of the backup directory, and an absent metadata file
NoDir == [exists |-> FALSE]
NoZip == [exists |-> FALSE]
NoMeta == [exists |-> FALSE]
\* What a damaged backup-metadata.json holds, by what reading it does:
\*   bad_json         - text that json.load rejects (JSONDecodeError)
\*   bad_utf8         - bytes that are not UTF-8 (UnicodeDecodeError, a ValueError)
\*   not_dict         - valid JSON that is not an object, e.g. []
\*   no_timestamp     - an object without the key 'timestamp'
\*   num_timestamp    - an object whose 'timestamp' is a number, not a string
Damages == {"bad_json", "bad_utf8", "not_dict", "no_timestamp", "num_timestamp"}

\* the metadata m after it was overwritten with damaged content of this kind; the
\* other fields keep what the file held, for the reads the damage leaves possible
Damaged(m, kind) == [damage |-> kind] @@ m

\* the damage of a metadata file, "none" for one that backup_files wrote
DamageOf(m) == IF "damage" \in DOMAIN m THEN m.damage ELSE "none"

\* the order in which iterdir() and glob('*.zip') yield the entries of backup_dir
IterDir == <<"b1", "b2">>

\* config.get('retention_days', None): None, or a number of days
None == [set |-> FALSE]
Days(d) == [set |-> TRUE, days |-> d]

\* the run ids used as LocalBackupManager.backup_id and as restore_files' backup_id
Ids == {"b1", "b2"}

\* self.backup_metadata, as a path segment
MetaName == <<"backup-metadata.json">>

\* the source files backup_files is asked to copy: /a/x, /b/x (same base name)
SrcPaths ==
    { << <<"a">>, <<"x">> >>,
      << <<"b">>, <<"x">> >> }

\* what a source path is when backup_files reaches it:
\*   missing  - nothing there            dir     - exists, not a regular file
\*   c1, c2   - a regular file with these bytes
\*   v1       - a regular file with bytes c1 that is removed by another process
\*              after copy2 and before file_path.stat()
SrcKinds == {"missing", "dir", "c1", "c2", "v1"}

\* file_path.exists() and file_path.is_file()
IsRegularFile(k) == k \in {"c1", "c2", "v1"}

\* the bytes copy2 reads
Bytes(k) == IF k = "v1" THEN "c1" ELSE k

\* st_size of a file with these bytes
Size(b) == IF b = "c1" THEN 1 ELSE 2

\* file_path.relative_to(file_path.anchor): the segments below the root
RelPath(f) == f

\* a mapping with no key, and m with m[k] set to v
EmptyMap == [q \in {} |-> "c1"]
MapPut(m, k, v) == [q \in (DOMAIN m) \cup {k} |-> IF q = k THEN v ELSE m[q]]

\* no concurrent calls
NoProcs == [none |-> TRUE]

\* the orchestrator's variables while no orchestrator runs
NoRun == [returned |-> FALSE]
OrchIdle ==
    /\ orch = [constructed |-> FALSE]
    /\ world = [listing |-> <<>>]

\* the state of every variable of the manager while only the classifier runs
ManagerIdle ==
    /\ config = [enabled |-> TRUE, compression |-> FALSE,
                 cleanup_source |-> TRUE, retention_days |-> None]
    /\ now = 0
    /\ dirs = [i \in Ids |-> NoDir]
    /\ zips = [i \in Ids |-> NoZip]
    /\ target = [exists |-> FALSE, files |-> EmptyMap]
    /\ orig = [i \in Ids |-> [dir |-> EmptyMap, zip |-> EmptyMap]]
    /\ last = [op |-> "none"]
    /\ nbackups = 0
    /\ procs = NoProcs

(***************************************************************************)
(* Specification of the classifier: one call of _classify_data on a file   *)
(* list and a rule set drawn from the bounded sets above                   *)
(***************************************************************************)
ClassifyInit ==
    /\ files \in SeqsUpTo(ClassPaths, MaxClassFiles)
    /\ rules \in RuleSets
    /\ classification = NotClassified
    /\ OrchIdle
    /\ ManagerIdle

Classify ==
    /\ classification = NotClassified
    /\ classification' = ClassifyData(files, rules)
    /\ UNCHANGED <<files, rules>>
    /\ UNCHANGED orchVars
    /\ UNCHANGED procs
    /\ UNCHANGED managerVars

ClassifyNext == Classify

SpecClassify == ClassifyInit /\ [][ClassifyNext]_vars

Classified == classification # NotClassified

InTier(f, tier) == f \in Range(classification[tier])

\* C1: no file placed in proton_sensitive also appears in aws_primary.
C1_SensitiveNeverInPrimary ==
    Classified =>
        \A f \in Range(files) :
            InTier(f, "proton_sensitive") => ~InTier(f, "aws_primary")

\* C2: every file placed in proton_sensitive is absent from aws_primary unless
\* the file matches a critical pattern.
C2_SensitiveInPrimaryOnlyIfCritical ==
    Classified =>
        \A f \in Range(files) :
            (InTier(f, "proton_sensitive") /\ InTier(f, "aws_primary"))
                => IsCritical(f, rules)

\* C2 witness: a classified list holding a sensitive file that is critical (in both
\* tiers) and a sensitive file that is not (kept out of aws_primary).
C2_Witness ==
    /\ Classified
    /\ \E f \in Range(files) :
          InTier(f, "proton_sensitive") /\ InTier(f, "aws_primary")
    /\ \E g \in Range(files) :
          InTier(g, "proton_sensitive") /\ ~InTier(g, "aws_primary")

\* C3: each tier list is the input list filtered by a predicate of (is_sensitive,
\* is_critical) of the file alone: proton_sensitive the sensitive files,
\* local_airgapped the critical files, aws_primary the files that are critical or
\* not sensitive; so sensitive-only gives {proton}, critical-only {aws, local},
\* both all three, neither {aws}, whatever else is in the list.
C3_TiersByPredicates ==
    Classified =>
        /\ classification.proton_sensitive =
               SelectSeq(files, LAMBDA f : IsSensitive(f, rules))
        /\ classification.local_airgapped =
               SelectSeq(files, LAMBDA f : IsCritical(f, rules))
        /\ classification.aws_primary =
               SelectSeq(files, LAMBDA f : IsCritical(f, rules) \/ ~IsSensitive(f, rules))

TiersOf(f) ==
    {t \in {"aws_primary", "proton_sensitive", "local_airgapped"} : InTier(f, t)}

\* C3 witness: one classified list with a file in all three tiers, a file in
\* proton_sensitive alone and a file in aws_primary and local_airgapped.
C3_Witness ==
    /\ Classified
    /\ \E f \in Range(files) : TiersOf(f) = {"aws_primary", "proton_sensitive", "local_airgapped"}
    /\ \E f \in Range(files) : TiersOf(f) = {"proton_sensitive"}
    /\ \E f \in Range(files) : TiersOf(f) = {"aws_primary", "local_airgapped"}

(***************************************************************************)
(* Local manager: LocalBackupManager.backup_files                          *)
(***************************************************************************)
Profile == "documents"

\* the dict appended to metadata['files'] for a copied file
SuccessRecord(id, f, b) ==
    [source |-> f, destination |-> [id |-> id, rel |-> RelPath(f)],
     size |-> Size(b), status |-> "success"]

\* the dict appended to metadata['files'] for a file that was not recorded as copied
FailedRecord(f, tag, etype) ==
    [source |-> f, status |-> "failed", error |-> tag, error_type |-> etype]

\* one pass of the copy loop: the exists/is_file test, copy2, the counter, the
\* record with its stat() call, and the two places a failed record is appended
CopyFile(acc, id, f, k) ==
    IF IsRegularFile(k)
    THEN LET copied == [acc EXCEPT !.stored = MapPut(@, RelPath(f), Bytes(k)),
                                   !.successful_files = @ + 1]
         IN  IF k = "v1"
             THEN \* stat() raises FileNotFoundError after the copy and the count:
                  \* the except OSError clause appends a failed record
                  [copied EXCEPT !.records =
                       Append(@, FailedRecord(f, "oserror", "FileNotFoundError"))]
             ELSE [copied EXCEPT !.records = Append(@, SuccessRecord(id, f, Bytes(k)))]
    ELSE [acc EXCEPT !.records = Append(@, FailedRecord(f, "not_regular", "FileNotFoundError"))]

\* the copy loop over the input list, in order
RECURSIVE CopyLoop(_, _, _, _)
CopyLoop(acc, id, fs, view) ==
    IF fs = <<>> THEN acc
    ELSE CopyLoop(CopyFile(acc, id, Head(fs), view[Head(fs)]), id, Tail(fs), view)

\* the restriction of a mapping to some of its keys
Restrict(m, ks) == [q \in (DOMAIN m) \cap ks |-> m[q]]

\* how a call of _compress_backup can end: it completes; ZipFile() cannot open the
\* archive for writing (nothing changes); or a write fails after the archive was
\* created, which leaves an archive holding the entries written so far
CompressOutcomes ==
    {[result |-> "ok"], [result |-> "open_error"]}
    \cup {[result |-> "write_error", kept |-> ks, meta_kept |-> mk] :
             ks \in SUBSET {RelPath(f) : f \in SrcPaths}, mk \in BOOLEAN}

\* a plausible slip: zf.write(file_path, file_path.name) stores every file under
\* its base name, so the archive loses the directories
CompressBackup_FlatNames(dir, zip, cleanup_source, t, oc) ==
    LET kept == IF oc.result = "ok" THEN DOMAIN dir.files ELSE oc.kept
    IN  CASE oc.result = "open_error" -> [dir |-> dir, zip |-> zip]
          [] OTHER ->
               [dir |-> IF oc.result = "ok" /\ cleanup_source THEN NoDir ELSE dir,
                zip |-> [exists |-> TRUE,
                         files |-> [n \in {<<Name(q)>> : q \in (DOMAIN dir.files) \cap kept} |->
                                      dir.files[CHOOSE q \in (DOMAIN dir.files) \cap kept :
                                                    <<Name(q)>> = n]],
                         meta |-> IF oc.result = "ok" \/ oc.meta_kept THEN dir.meta ELSE NoMeta,
                         mtime |-> t]]

\* a plausible slip: the source directory is kept whatever cleanup_source says
CompressBackup_KeepsSource(dir, zip, cleanup_source, t, oc) ==
    CASE oc.result = "ok" ->
            [dir |-> dir,
             zip |-> [exists |-> TRUE, files |-> dir.files, meta |-> dir.meta, mtime |-> t]]
      [] oc.result = "open_error" ->
            [dir |-> dir, zip |-> zip]
      [] oc.result = "write_error" ->
            [dir |-> dir,
             zip |-> [exists |-> TRUE, files |-> Restrict(dir.files, oc.kept),
                      meta |-> IF oc.meta_kept THEN dir.meta ELSE NoMeta, mtime |-> t]]

\* _compress_backup: <id>/ and <id>.zip after the call
CompressBackup(dir, zip, cleanup_source, t, oc) ==
    CASE oc.result = "ok" ->
            [dir |-> IF cleanup_source THEN NoDir ELSE dir,
             zip |-> [exists |-> TRUE, files |-> dir.files, meta |-> dir.meta, mtime |-> t]]
      [] oc.result = "open_error" ->
            [dir |-> dir, zip |-> zip]
      [] oc.result = "write_error" ->
            [dir |-> dir,
             zip |-> [exists |-> TRUE, files |-> Restrict(dir.files, oc.kept),
                      meta |-> IF oc.meta_kept THEN dir.meta ELSE NoMeta, mtime |-> t]]

\* a plausible slip: the comparison of the timestamp with the cutoff is reversed
SweepDir_Reversed(d, cutoff_time) ==
    IF ~d.exists \/ ~d.meta.exists THEN "skip"
    ELSE CASE DamageOf(d.meta) \in {"bad_json", "bad_utf8", "no_timestamp"} -> "skip"
           [] DamageOf(d.meta) \in {"not_dict", "num_timestamp"} -> "raise"
           [] OTHER -> IF d.meta.timestamp > cutoff_time THEN "remove" ELSE "keep"

\* what the body of the directory loop of _cleanup_old_backups does with <id>/:
\*   skip   - no directory, no metadata file, or an exception the inner except
\*            clause catches (JSONDecodeError, KeyError, ValueError)
\*   raise  - a TypeError, which no except clause of the sweep catches
\*   remove - the timestamp is before the cutoff: rmtree
\*   keep   - the timestamp is not before the cutoff
SweepDir(d, cutoff_time) ==
    IF ~d.exists \/ ~d.meta.exists THEN "skip"
    ELSE CASE DamageOf(d.meta) \in {"bad_json", "bad_utf8", "no_timestamp"} -> "skip"
           [] DamageOf(d.meta) \in {"not_dict", "num_timestamp"} -> "raise"
           [] OTHER -> IF d.meta.timestamp < cutoff_time THEN "remove" ELSE "keep"

\* the directory loop from position n of the iteration order on
RECURSIVE SweepDirs(_, _, _)
SweepDirs(ds, n, cutoff_time) ==
    IF n > Len(IterDir) THEN [dirs |-> ds, raised |-> FALSE]
    ELSE LET i == IterDir[n]
             o == SweepDir(ds[i], cutoff_time)
         IN  CASE o = "raise" -> [dirs |-> ds, raised |-> TRUE]
               [] o = "remove" -> SweepDirs([ds EXCEPT ![i] = NoDir], n + 1, cutoff_time)
               [] OTHER -> SweepDirs(ds, n + 1, cutoff_time)

\* _cleanup_old_backups at time t: every directory whose metadata timestamp is
\* before the cutoff is removed, then every archive whose mtime is before it; an
\* exception that leaves the directory loop also skips the archive loop
CleanupOldBackups(ds, zs, t, retention_days) ==
    LET cutoff_time == t - retention_days * TicksPerDay
        sd == SweepDirs(ds, 1, cutoff_time)
    IN  [dirs |-> sd.dirs,
         zips |-> IF sd.raised THEN zs
                  ELSE [i \in Ids |->
                          IF zs[i].exists /\ zs[i].mtime < cutoff_time
                          THEN NoZip ELSE zs[i]],
         raised |-> sd.raised,
         cutoff_time |-> cutoff_time]

\* history: the source bytes of every file copy2 copied in this call
RECURSIVE OrigAfter(_, _, _)
OrigAfter(o, fs, view) ==
    IF fs = <<>> THEN o
    ELSE LET f == Head(fs)
             k == view[f]
         IN  OrigAfter(IF k \in {"c1", "c2", "v1"} THEN MapPut(o, RelPath(f), Bytes(k)) ELSE o,
                       Tail(fs), view)

\* backup_files(files, profile) of a manager built with backup_id = id; view is
\* what the source paths are during the call, e1 and e2 the time that passes
\* between the metadata timestamp, the archive's mtime and the sweep's now().
\* An exception that leaves the sweep is not an OSError, so it leaves backup_files
\* too: the call raises and returns nothing (raised, with ret FALSE).
BackupFiles(id, fs, view, e1, e2, oc) ==
    LET dir0 == IF dirs[id].exists THEN dirs[id]
                ELSE [exists |-> TRUE, files |-> EmptyMap, meta |-> NoMeta]
        acc == CopyLoop([stored |-> dir0.files, records |-> <<>>, successful_files |-> 0],
                        id, fs, view)
        metadata == [exists |-> TRUE, backup_id |-> id, profile |-> Profile,
                     timestamp |-> now, files_count |-> Len(fs), files |-> acc.records]
        dir1 == [exists |-> TRUE, files |-> acc.stored, meta |-> metadata]
        compresses == config.compression /\ acc.successful_files > 0
        c == IF compresses
             THEN CompressBackup(dir1, zips[id], config.cleanup_source, now + e1, oc)
             ELSE [dir |-> dir1, zip |-> zips[id]]
        ds1 == [dirs EXCEPT ![id] = c.dir]
        zs1 == [zips EXCEPT ![id] = c.zip]
        sweeps == config.retention_days.set
        w == IF sweeps
             THEN CleanupOldBackups(ds1, zs1, now + e1 + e2, config.retention_days.days)
             ELSE [dirs |-> ds1, zips |-> zs1, raised |-> FALSE, cutoff_time |-> 0]
    IN  [dirs |-> w.dirs, zips |-> w.zips,
         ret |-> ~w.raised /\ acc.successful_files > 0,
         raised |-> w.raised,
         before_sweep |-> [dirs |-> ds1, zips |-> zs1],
         cutoff_time |-> w.cutoff_time,
         successful_files |-> acc.successful_files,
         metadata |-> metadata,
         compress |-> IF compresses THEN oc.result ELSE "none",
         swept |-> sweeps]

\* history: the source bytes behind the files of every directory and archive after
\* a call; an archive that the call wrote holds copies of the directory's files
OrigNext(id, fs, view, r) ==
    LET od == OrigAfter(orig[id].dir, fs, view)
        oz == IF r.compress \in {"ok", "write_error"} THEN od ELSE orig[id].zip
    IN  [i \in Ids |->
            [dir |-> IF ~r.dirs[i].exists THEN EmptyMap
                     ELSE IF i = id THEN od ELSE orig[i].dir,
             zip |-> IF ~r.zips[i].exists THEN EmptyMap
                     ELSE IF i = id THEN oz ELSE orig[i].zip]]

\* what an enabled backup_files call whose outcome is r leaves in the backup
\* directory, and the record of the call
BackupRecorded(id, fs, view, e1, e2, r) ==
    /\ dirs' = r.dirs
    /\ zips' = r.zips
    /\ now' = now + e1 + e2
    /\ orig' = OrigNext(id, fs, view, r)
    /\ last' = [op |-> "backup", id |-> id, enabled |-> TRUE, ret |-> r.ret,
                files |-> fs,
                kinds |-> [n \in 1..Len(fs) |-> view[fs[n]]],
                successful_files |-> r.successful_files,
                metadata |-> r.metadata,
                compress |-> r.compress,
                swept |-> r.swept,
                raised |-> r.raised,
                before_sweep |-> r.before_sweep,
                cutoff_time |-> r.cutoff_time]

\* a plausible slip: backup_files without the `if not self.enabled` return
BackupStep_IgnoresEnabled(id, fs, view, e1, e2, oc) ==
    /\ now + e1 + e2 <= MaxClock
    /\ BackupRecorded(id, fs, view, e1, e2, BackupFiles(id, fs, view, e1, e2, oc))
    /\ nbackups' = nbackups + 1
    /\ UNCHANGED <<config, target>>

\* the effect of one backup_files call on the backup directory and the clock
BackupStep(id, fs, view, e1, e2, oc) ==
    /\ now + e1 + e2 <= MaxClock
    /\ IF ~config.enabled
       THEN /\ last' = [op |-> "backup", id |-> id, enabled |-> FALSE, ret |-> TRUE,
                        raised |-> FALSE]
            /\ UNCHANGED <<now, dirs, zips, orig>>
       ELSE BackupRecorded(id, fs, view, e1, e2, BackupFiles(id, fs, view, e1, e2, oc))
    /\ nbackups' = nbackups + 1
    /\ UNCHANGED <<config, target>>

\* backup_files called on its own, outside an orchestrator run
Backup(id, fs, view, e1, e2, oc) ==
    /\ BackupStep(id, fs, view, e1, e2, oc)
    /\ UNCHANGED classifierVars
    /\ UNCHANGED orchVars
    /\ UNCHANGED procs

(***************************************************************************)
(* Local manager: LocalBackupManager.restore_files                         *)
(***************************************************************************)
\* the bytes of backup-metadata.json, as a restored file
MetaBytes == "json"

\* Path(file_info['destination']).exists()
StoredExists(dest) ==
    /\ dirs[dest.id].exists
    /\ dest.rel \in DOMAIN dirs[dest.id].files

\* a plausible slip: the loop of _restore_from_directory rebuilds the source's
\* directories under the target, as the archive restore does
RECURSIVE RestoreLoop_KeepsPath(_, _)
RestoreLoop_KeepsPath(acc, recs) ==
    IF recs = <<>> THEN acc
    ELSE LET r == Head(recs)
         IN  IF r.status # "success" THEN RestoreLoop_KeepsPath(acc, Tail(recs))
             ELSE IF ~StoredExists(r.destination) THEN RestoreLoop_KeepsPath(acc, Tail(recs))
             ELSE RestoreLoop_KeepsPath(
                    [files |-> MapPut(acc.files, r.destination.rel,
                                      dirs[r.destination.id].files[r.destination.rel]),
                     successful_restores |-> acc.successful_restores + 1,
                     written |-> acc.written \cup {r.destination.rel}],
                    Tail(recs))

\* a plausible slip: the loop of _restore_from_directory sets the counter to one on
\* every copy (successful_restores = 1 for successful_restores += 1)
RECURSIVE RestoreLoop_CountSet(_, _)
RestoreLoop_CountSet(acc, recs) ==
    IF recs = <<>> THEN acc
    ELSE LET r == Head(recs)
         IN  IF r.status # "success" THEN RestoreLoop_CountSet(acc, Tail(recs))
             ELSE IF ~StoredExists(r.destination) THEN RestoreLoop_CountSet(acc, Tail(recs))
             ELSE RestoreLoop_CountSet(
                    [files |-> MapPut(acc.files, <<Name(r.source)>>,
                                      dirs[r.destination.id].files[r.destination.rel]),
                     successful_restores |-> 1,
                     written |-> acc.written \cup {<<Name(r.source)>>}],
                    Tail(recs))

\* the loop of _restore_from_directory over metadata['files']: every record with
\* status success whose stored file exists is copied to target/<source name>
RECURSIVE RestoreLoop(_, _)
RestoreLoop(acc, recs) ==
    IF recs = <<>> THEN acc
    ELSE LET r == Head(recs)
         IN  IF r.status # "success" THEN RestoreLoop(acc, Tail(recs))
             ELSE IF ~StoredExists(r.destination) THEN RestoreLoop(acc, Tail(recs))
             ELSE RestoreLoop(
                    [files |-> MapPut(acc.files, <<Name(r.source)>>,
                                      dirs[r.destination.id].files[r.destination.rel]),
                     successful_restores |-> acc.successful_restores + 1,
                     written |-> acc.written \cup {<<Name(r.source)>>}],
                    Tail(recs))

\* _restore_from_directory. json.load comes before target_path.mkdir and the loop:
\* a JSONDecodeError is caught and gives False; a UnicodeDecodeError is none of
\* (OSError, JSONDecodeError, KeyError) and leaves restore_files as an exception;
\* metadata that is not an object raises AttributeError at metadata.get, after
\* the mkdir. A damaged timestamp is never read here.
RestoreFromDirectory(dir, tgt) ==
    IF ~dir.meta.exists
    THEN [ret |-> FALSE, raised |-> FALSE, target |-> tgt, count |-> 0, written |-> {}]
    ELSE CASE DamageOf(dir.meta) = "bad_json" ->
                [ret |-> FALSE, raised |-> FALSE, target |-> tgt, count |-> 0, written |-> {}]
           [] DamageOf(dir.meta) = "bad_utf8" ->
                [ret |-> FALSE, raised |-> TRUE, target |-> tgt, count |-> 0, written |-> {}]
           [] DamageOf(dir.meta) = "not_dict" ->
                [ret |-> FALSE, raised |-> TRUE,
                 target |-> [exists |-> TRUE, files |-> tgt.files],
                 count |-> 0, written |-> {}]
           [] OTHER ->
                LET acc == RestoreLoop([files |-> tgt.files, successful_restores |-> 0,
                                        written |-> {}], dir.meta.files)
                IN  [ret |-> acc.successful_restores > 0,
                     raised |-> FALSE,
                     target |-> [exists |-> TRUE, files |-> acc.files],
                     count |-> acc.successful_restores,
                     written |-> acc.written]

\* the entries of an archive: arcname -> bytes, the metadata file among them
ZipEntries(zip) ==
    IF zip.meta.exists THEN MapPut(zip.files, <<MetaName>>, MetaBytes) ELSE zip.files

\* _restore_from_zip: every entry of zf.filelist is written to target/<arcname>;
\* the metadata entry is copied like any other and never parsed
RestoreFromZip(zip, tgt) ==
    LET entries == ZipEntries(zip)
    IN  [ret |-> Cardinality(DOMAIN entries) > 0,
         raised |-> FALSE,
         target |-> [exists |-> TRUE,
                     files |-> [q \in (DOMAIN tgt.files) \cup (DOMAIN entries) |->
                                   IF q \in DOMAIN entries THEN entries[q] ELSE tgt.files[q]]],
         count |-> Cardinality(DOMAIN entries),
         written |-> DOMAIN entries]

\* a plausible slip: target_path.mkdir() runs before the snapshot is looked for
RestoreFiles_MkdirFirst(id, tgt) ==
    IF zips[id].exists
    THEN [from |-> "zip"] @@ RestoreFromZip(zips[id], tgt)
    ELSE IF dirs[id].exists
    THEN [from |-> "dir"] @@ RestoreFromDirectory(dirs[id], tgt)
    ELSE [from |-> "none", ret |-> FALSE, raised |-> FALSE,
          target |-> [exists |-> TRUE, files |-> tgt.files],
          count |-> 0, written |-> {}]

\* restore_files(backup_id, target_path) on an enabled manager: the archive is
\* looked for first, then the directory
RestoreFiles(id, tgt) ==
    IF zips[id].exists
    THEN [from |-> "zip"] @@ RestoreFromZip(zips[id], tgt)
    ELSE IF dirs[id].exists
    THEN [from |-> "dir"] @@ RestoreFromDirectory(dirs[id], tgt)
    ELSE [from |-> "none", ret |-> FALSE, raised |-> FALSE, target |-> tgt,
          count |-> 0, written |-> {}]

\* the target directory handed to restore_files: one that does not exist yet, or
\* one that already holds a file x
NoTarget == [exists |-> FALSE, files |-> EmptyMap]
UsedTarget == [exists |-> TRUE, files |-> MapPut(EmptyMap, <<<<"x">>>>, "old")]
Targets == {NoTarget, UsedTarget}

Restore(id, tgt) ==
    /\ IF ~config.enabled
       THEN /\ last' = [op |-> "restore", id |-> id, enabled |-> FALSE, ret |-> TRUE,
                        raised |-> FALSE, before |-> tgt]
            /\ target' = tgt
       ELSE LET r == RestoreFiles(id, tgt)
            IN  /\ target' = r.target
                /\ last' = [op |-> "restore", id |-> id, enabled |-> TRUE, ret |-> r.ret,
                            raised |-> r.raised, from |-> r.from, count |-> r.count, written |-> r.written,
                            before |-> tgt]
    /\ UNCHANGED <<config, now, dirs, zips, orig, nbackups>>
    /\ UNCHANGED classifierVars
    /\ UNCHANGED orchVars
    /\ UNCHANGED procs

(***************************************************************************)
(* Local manager: LocalBackupManager.list_backups                          *)
(***************************************************************************)
\* what reading one metadata file does to list_backups:
\*   skip   - no metadata (KeyError from zf.read), or a JSONDecodeError: logged
\*   raise  - a UnicodeDecodeError, or the TypeError of metadata['compressed'] = ...
\*            on a value that is not an object: no except clause catches them
\*   append - the metadata dict is appended to the list
ListOne(m) ==
    IF ~m.exists THEN "skip"
    ELSE CASE DamageOf(m) = "bad_json" -> "skip"
           [] DamageOf(m) \in {"bad_utf8", "not_dict"} -> "raise"
           [] OTHER -> "append"

\* x.get('timestamp', '') as the sort sees it: a number, or a string, whose
\* order among the strings is given by a pair compared left to right: '' comes
\* before every ISO date, and the ISO dates are ordered by time
SortKey(m) ==
    CASE DamageOf(m) = "num_timestamp" -> [num |-> TRUE,  k |-> <<1, m.timestamp>>]
      [] DamageOf(m) = "no_timestamp"  -> [num |-> FALSE, k |-> <<0, 0>>]
      [] OTHER                         -> [num |-> FALSE, k |-> <<1, m.timestamp>>]

\* a < b on two such pairs
KeyLess(a, b) ==
    \/ a[1] < b[1]
    \/ a[1] = b[1] /\ a[2] < b[2]

\* the summaries of the directory loop, then of the archive loop, in iteration
\* order, up to the first exception (the size of the archive aside)
RECURSIVE ListFrom(_, _, _)
ListFrom(acc, n, compressed) ==
    IF acc.raised \/ n > Len(IterDir) THEN acc
    ELSE LET i == IterDir[n]
             present == IF compressed THEN zips[i].exists ELSE dirs[i].exists
             m == IF compressed THEN zips[i].meta ELSE dirs[i].meta
             o == IF present THEN ListOne(m) ELSE "skip"
         IN  ListFrom(CASE o = "raise" -> [acc EXCEPT !.raised = TRUE]
                        [] o = "append" ->
                             [acc EXCEPT !.backups =
                                 Append(@, [backup_id |-> i, compressed |-> compressed,
                                            metadata |-> m])]
                        [] OTHER -> acc,
                      n + 1, compressed)

\* list.sort(key, reverse=True): stable, so an element goes behind every element
\* whose key is not smaller than its own
RECURSIVE SortedInsert(_, _)
SortedInsert(sorted, x) ==
    IF sorted = <<>> THEN <<x>>
    ELSE IF KeyLess(SortKey(Head(sorted).metadata).k, SortKey(x.metadata).k)
         THEN <<x>> \o sorted
         ELSE <<Head(sorted)>> \o SortedInsert(Tail(sorted), x)

RECURSIVE SortBackups(_, _)
SortBackups(sorted, rest) ==
    IF rest = <<>> THEN sorted
    ELSE SortBackups(SortedInsert(sorted, Head(rest)), Tail(rest))

\* list_backups: the two loops, then the sort, which raises TypeError when it has
\* to compare a number with a string
ListBackups ==
    LET ds == ListFrom([backups |-> <<>>, raised |-> FALSE], 1, FALSE)
        all == ListFrom(ds, 1, TRUE)
        nums == {n \in 1..Len(all.backups) : SortKey(all.backups[n].metadata).num}
        mixed == nums # {} /\ nums # 1..Len(all.backups)
    IN  IF all.raised \/ mixed
        THEN [raised |-> TRUE, backups |-> <<>>]
        ELSE [raised |-> FALSE, backups |-> SortBackups(<<>>, all.backups)]

List ==
    /\ LET r == ListBackups
       IN  last' = [op |-> "list", enabled |-> config.enabled, raised |-> r.raised,
                    backups |-> r.backups]
    /\ UNCHANGED <<config, now, dirs, zips, target, orig, nbackups>>
    /\ UNCHANGED classifierVars
    /\ UNCHANGED orchVars
    /\ UNCHANGED procs

\* the metadata file of a stored snapshot is overwritten from outside with damaged
\* content (a write cut short, a disk error, an edit by hand); at most one
\* metadata file of the backup directory is damaged at a time
NoDamage ==
    \A i \in Ids :
        /\ (dirs[i].exists /\ dirs[i].meta.exists) => DamageOf(dirs[i].meta) = "none"
        /\ (zips[i].exists /\ zips[i].meta.exists) => DamageOf(zips[i].meta) = "none"

Damage(id, archived, kind) ==
    /\ NoDamage
    /\ IF archived
       THEN /\ zips[id].exists /\ zips[id].meta.exists
            /\ zips' = [zips EXCEPT ![id].meta = Damaged(@, kind)]
            /\ UNCHANGED dirs
       ELSE /\ dirs[id].exists /\ dirs[id].meta.exists
            /\ dirs' = [dirs EXCEPT ![id].meta = Damaged(@, kind)]
            /\ UNCHANGED zips
    /\ last' = [op |-> "damage", id |-> id, archived |-> archived, kind |-> kind]
    /\ UNCHANGED <<config, now, target, orig, nbackups>>
    /\ UNCHANGED classifierVars
    /\ UNCHANGED orchVars
    /\ UNCHANGED procs

\* time passes between two calls
Tick ==
    /\ now < MaxClock
    /\ now' = now + 1
    /\ UNCHANGED <<config, dirs, zips, target, orig, last, nbackups>>
    /\ UNCHANGED classifierVars
    /\ UNCHANGED orchVars
    /\ UNCHANGED procs

(***************************************************************************)
(* Specifications of the local manager                                     *)
(***************************************************************************)
Configs ==
    [enabled : BOOLEAN, compression : BOOLEAN, cleanup_source : BOOLEAN,
     retention_days : {None, Days(0), Days(1)}]

Init ==
    /\ config \in Configs
    /\ now = 0
    /\ dirs = [i \in Ids |-> NoDir]
    /\ zips = [i \in Ids |-> NoZip]
    /\ target = NoTarget
    /\ orig = [i \in Ids |-> [dir |-> EmptyMap, zip |-> EmptyMap]]
    /\ last = [op |-> "none"]
    /\ nbackups = 0
    /\ procs = NoProcs
    /\ files = <<>>
    /\ rules = [keywords |-> {}, file_extensions |-> {}, patterns |-> {}]
    /\ classification = NotClassified
    /\ OrchIdle

\* the time that passes inside one backup_files call: e1 only matters to a call
\* that compresses, e2 to one that sweeps
Elapsed ==
    {e \in (0..1) \X (0..1) :
        /\ (~config.compression => e[1] = 0)
        /\ (~config.retention_days.set => e[2] = 0)}

\* SpecSnapshot: one backup_files call on an empty backup directory, with file
\* lists of up to MaxFiles paths of every kind, then restores
BackupOnce ==
    /\ nbackups = 0
    /\ procs = NoProcs
    /\ \E id \in Ids, fs \in SeqsUpTo(SrcPaths, MaxFiles), e \in Elapsed,
          oc \in CompressOutcomes :
          \E view \in [Range(fs) -> SrcKinds] : Backup(id, fs, view, e[1], e[2], oc)

RestoreAfter ==
    /\ nbackups > 0
    /\ \E id \in Ids, tgt \in Targets : Restore(id, tgt)

NextSnapshot ==
    \/ BackupOnce
    \/ RestoreAfter

SpecSnapshot == Init /\ [][NextSnapshot]_vars

\* Spec: up to MaxBackups backup_files calls, any ids, with file lists of at most
\* one path, interleaved with restores and the passing of time
LifePaths == { << <<"a">>, <<"x">> >> }
LifeKinds == {"missing", "c1", "c2"}
LifeOutcomes ==
    {oc \in CompressOutcomes : oc.result = "write_error" => oc.kept = {}}

BackupAgain ==
    /\ nbackups < MaxBackups
    /\ \E id \in Ids, fs \in SeqsUpTo(LifePaths, 1), e \in Elapsed, oc \in LifeOutcomes :
          \E view \in [Range(fs) -> LifeKinds] : Backup(id, fs, view, e[1], e[2], oc)

Next ==
    \/ BackupAgain
    \/ \E id \in Ids : Restore(id, NoTarget)
    \/ Tick

Spec == Init /\ [][Next]_vars

\* SpecStore: a backup directory over its life on an enabled manager, with no
\* retention or a retention of one day (cleanup_source left at its default when
\* nothing is compressed): backup_files calls with file lists of at most one path,
\* the passing of time, damage to one metadata file, list_backups and restores
StoreConfigs ==
    {c \in Configs : /\ c.enabled
                     /\ c.retention_days # Days(0)
                     /\ (~c.compression => c.cleanup_source)}

StoreOutcomes == {oc \in CompressOutcomes : oc.result # "write_error"}

StoreBackup ==
    /\ nbackups < MaxBackups
    /\ \E id \in Ids, fs \in SeqsUpTo(LifePaths, 1), e \in Elapsed, oc \in StoreOutcomes :
          \E view \in [Range(fs) -> {"c1"}] :
              Backup(id, fs, view, e[1], e[2], oc)

StoreInit ==
    /\ Init
    /\ config \in StoreConfigs

NextStore ==
    \/ StoreBackup
    \/ Tick
    \/ \E id \in Ids, archived \in BOOLEAN, kind \in Damages : Damage(id, archived, kind)
    \/ List
    \/ \E id \in Ids : Restore(id, NoTarget)

SpecStore == StoreInit /\ [][NextStore]_vars

(***************************************************************************)
(* Orchestrator: BackupOrchestrator.backup_profile                         *)
(***************************************************************************)
\* the directory a profile's path entry names: /d
DocsDir == << <<"d">> >>

\* the regular files that can lie under /d: /d/sec.ky  /d/cf.js  /d/n.tx  /d/cf.KY
OrchPaths == {f \in ClassPaths : f[1] = <<"d">> /\ Name(f) # <<"S","E","C",".","t","x">>}

\* file_path below base_path, and its parts relative to base_path
IsUnder(f, base) == Len(f) > Len(base) /\ SubSeq(f, 1, Len(base)) = base
RelTo(f, base) == SubSeq(f, Len(base) + 1, Len(f))

\* Path.glob: the pattern's parts against the relative parts of a file; "**"
\* stands for any number of directories, any other part for one name
RECURSIVE GlobMatch(_, _)
GlobMatch(rel, pat) ==
    IF pat = <<>> THEN rel = <<>>
    ELSE IF Head(pat) = <<"*", "*">>
         THEN GlobMatch(rel, Tail(pat)) \/ (Len(rel) > 1 /\ GlobMatch(Tail(rel), pat))
         ELSE rel # <<>> /\ FnMatch(Head(rel), Head(pat)) /\ GlobMatch(Tail(rel), Tail(pat))

\* the include and exclude patterns of the profiles: "**/*", "*.js", "*.tx"
GlobAll == << <<"*", "*">>, <<"*">> >>
GlobJs == << <<"*", ".", "j", "s">> >>
GlobTx == << <<"*", ".", "t", "x">> >>

\* path_config.get('include', ['**/*']) and path_config.get('exclude', [])
IncludeOf(pc) == IF "include" \in DOMAIN pc THEN pc.include ELSE <<GlobAll>>
ExcludeOf(pc) == IF "exclude" \in DOMAIN pc THEN pc.exclude ELSE {}

\* the inner loops of _discover_files for one path entry: for each include
\* pattern in turn, the files glob yields (in listing order) that no exclude
\* pattern matches are appended; a file two patterns yield is appended twice
RECURSIVE DiscoverPatterns(_, _, _, _)
DiscoverPatterns(acc, pc, pats, listing) ==
    IF pats = <<>> THEN acc
    ELSE LET Found(f) ==
                 /\ IsUnder(f, pc.path)
                 /\ GlobMatch(RelTo(f, pc.path), Head(pats))
                 /\ ~\E excl \in ExcludeOf(pc) : PathMatch(f, excl)
         IN  DiscoverPatterns(acc \o SelectSeq(listing, Found), pc, Tail(pats), listing)

\* the outer loop over profile.get('paths', [])
RECURSIVE DiscoverPaths(_, _, _)
DiscoverPaths(acc, pcs, listing) ==
    IF pcs = <<>> THEN acc
    ELSE DiscoverPaths(DiscoverPatterns(acc, Head(pcs), IncludeOf(Head(pcs)), listing),
                       Tail(pcs), listing)

\* _discover_files(profile) on a disk whose regular files are `listing`
DiscoverFiles(profile, listing) ==
    DiscoverPaths(<<>>, IF "paths" \in DOMAIN profile THEN profile.paths ELSE <<>>, listing)

\* AWSBackupManager.backup_files: a placeholder that returns True, enabled or not
AwsBackupFiles(enabled, fs) == TRUE

\* _backup_to_aws: an exception of the import, the constructor or the call
\* (fault) is caught and gives False
BackupToAws(fs) ==
    IF world.aws_fault THEN FALSE ELSE AwsBackupFiles(orch.aws_enabled, fs)

\* ProtonSyncManager.sync_files: True when disabled; otherwise every file must
\* still exist as a regular file
ProtonSyncFiles(enabled, fs) ==
    IF ~enabled THEN TRUE ELSE \A f \in Range(fs) : IsRegularFile(world.view[f])

\* _backup_to_proton
BackupToProton(fs) == ProtonSyncFiles(orch.proton_enabled, fs)

\* _backup_to_local: the value LocalBackupManager.backup_files returns; an
\* exception of the constructor (fault) or of the call is caught and gives False
BackupToLocal(fs) ==
    IF world.local_fault THEN FALSE
    ELSE IF ~config.enabled THEN TRUE
    ELSE BackupFiles(orch.backup_id, fs, world.view, 0, 0, [result |-> "ok"]).ret

\* a plausible slip: the dispatch stops at the first tier that fails
TierCalls_StopAtFailure(cl, name) ==
    LET aws == IF cl.aws_primary # <<>>
               THEN <<[tier |-> "aws_primary", files |-> cl.aws_primary, profile |-> name,
                       outcome |-> BackupToAws(cl.aws_primary)]>>
               ELSE <<>>
        proton == IF cl.proton_sensitive # <<>> /\ \A n \in 1..Len(aws) : aws[n].outcome
                  THEN <<[tier |-> "proton_sensitive", files |-> cl.proton_sensitive,
                          profile |-> name,
                          outcome |-> BackupToProton(cl.proton_sensitive)]>>
                  ELSE <<>>
        local == IF /\ cl.local_airgapped # <<>>
                    /\ \A n \in 1..Len(aws \o proton) : (aws \o proton)[n].outcome
                 THEN <<[tier |-> "local_airgapped", files |-> cl.local_airgapped,
                         profile |-> name,
                         outcome |-> BackupToLocal(cl.local_airgapped)]>>
                 ELSE <<>>
    IN  aws \o proton \o local

\* the three dispatches of backup_profile, in order: each tier with a non-empty
\* list is called with that list and the profile name, and its boolean recorded
TierCalls(cl, name) ==
    LET aws == IF cl.aws_primary # <<>>
               THEN <<[tier |-> "aws_primary", files |-> cl.aws_primary, profile |-> name,
                       outcome |-> BackupToAws(cl.aws_primary)]>>
               ELSE <<>>
        proton == IF cl.proton_sensitive # <<>>
                  THEN <<[tier |-> "proton_sensitive", files |-> cl.proton_sensitive,
                          profile |-> name,
                          outcome |-> BackupToProton(cl.proton_sensitive)]>>
                  ELSE <<>>
        local == IF cl.local_airgapped # <<>>
                 THEN <<[tier |-> "local_airgapped", files |-> cl.local_airgapped,
                         profile |-> name,
                         outcome |-> BackupToLocal(cl.local_airgapped)]>>
                 ELSE <<>>
    IN  aws \o proton \o local

\* a plausible slip: any(results) in place of all(results)
Aggregate_Any(results) ==
    IF results # <<>> THEN \E n \in 1..Len(results) : results[n] ELSE FALSE

\* all(results) if results else False
Aggregate(results) ==
    IF results # <<>> THEN \A n \in 1..Len(results) : results[n] ELSE FALSE

\* the tiers a run appended to stats['tiers_completed']: those that returned True
CompletedTiers(calls) ==
    LET Ok(c) == c.outcome
        done == SelectSeq(calls, Ok)
    IN  [n \in 1..Len(done) |-> done[n].tier]

\* what one run leaves behind when it returns before any dispatch
EarlyReturn(name, ret, known, discovered) ==
    [name |-> name, ret |-> ret, known |-> known, discovered |-> discovered,
     classified |-> FALSE, classification |-> EmptyClassification, calls |-> <<>>,
     stats |-> orch.stats, summary |-> orch.summary]

\* the end of a run that dispatched: the statistics update, the aggregate and
\* the summary file of _log_summary
FinishRun(name, discovered, cl, calls, stats) ==
    [name |-> name,
     ret |-> Aggregate([n \in 1..Len(calls) |-> calls[n].outcome]),
     known |-> TRUE, discovered |-> discovered,
     classified |-> TRUE, classification |-> cl, calls |-> calls,
     stats |-> stats,
     summary |-> [written |-> TRUE, backup_id |-> orch.backup_id,
                  files_processed |-> stats.files_processed,
                  files_failed |-> stats.files_failed,
                  tiers_completed |-> stats.tiers_completed]]

\* a plausible slip: the dispatch counts the tiers that failed in files_failed
StatsAfter_CountsFailed(discovered, calls) ==
    [orch.stats EXCEPT !.tiers_completed = @ \o CompletedTiers(calls),
                       !.has_end_time = TRUE,
                       !.files_processed = Len(discovered),
                       !.files_failed =
                           @ + Cardinality({n \in 1..Len(calls) : ~calls[n].outcome})]

\* the statistics after the dispatch: the tiers that returned True appended, the
\* end time set, files_processed the number of discovered files
StatsAfter(discovered, calls) ==
    [orch.stats EXCEPT !.tiers_completed = @ \o CompletedTiers(calls),
                       !.has_end_time = TRUE,
                       !.files_processed = Len(discovered)]

\* the dispatch of a classification and what follows it
DispatchRun(name, discovered, cl, calls) ==
    FinishRun(name, discovered, cl, calls, StatsAfter(discovered, calls))

\* the run from the discovered list on: the early return on an empty list, else
\* classification and dispatch
RunDiscovered(name, discovered, cl) ==
    IF discovered = <<>> THEN EarlyReturn(name, TRUE, TRUE, discovered)
    ELSE DispatchRun(name, discovered, cl, TierCalls(cl, name))

\* a plausible slip: config['profiles'].get(profile_name, {}) in place of the
\* membership test, so that an unknown profile is an empty one
RunProfile_UnknownAsEmpty(name) ==
    LET profile == IF name \in DOMAIN orch.profiles THEN orch.profiles[name]
                   ELSE [x \in {} |-> 0]
    IN  RunDiscovered(name, DiscoverFiles(profile, world.listing),
                      ClassifyData(DiscoverFiles(profile, world.listing), rules))

\* backup_profile(profile_name): the value returned and everything the run
\* computed and wrote on the way - the discovered list, the classification, the
\* tier calls, the statistics and the summary file of _log_summary
RunProfile(name) ==
    IF name \notin DOMAIN orch.profiles THEN EarlyReturn(name, FALSE, FALSE, <<>>)
    ELSE RunDiscovered(name, DiscoverFiles(orch.profiles[name], world.listing),
                       ClassifyData(DiscoverFiles(orch.profiles[name], world.listing),
                                    rules))

\* the local tier's backup_files call of a run, if the run reaches it
LocalCall(r) ==
    {n \in 1..Len(r.calls) : r.calls[n].tier = "local_airgapped" /\ ~world.local_fault}

\* what a run r leaves in the orchestrator, and the local tier's effect on the
\* backup directory
RunRecorded(r) ==
    /\ orch' = [orch EXCEPT !.stats = r.stats, !.summary = r.summary,
                            !.run = [returned |-> TRUE] @@ r,
                            !.runs = @ + 1]
    /\ IF r.classified
       THEN files' = r.discovered /\ classification' = r.classification
       ELSE UNCHANGED <<files, classification>>
    /\ IF LocalCall(r) # {}
       THEN \E n \in LocalCall(r) :
                BackupStep(orch.backup_id, r.calls[n].files, world.view,
                           0, 0, [result |-> "ok"])
       ELSE UNCHANGED managerVars

\* one backup_profile call on the orchestrator
BackupProfile(name) ==
    /\ orch.constructed
    /\ orch.runs < MaxRuns
    /\ RunRecorded(RunProfile(name))
    /\ UNCHANGED <<rules, world, procs>>

\* the two rule sets of the orchestrator runs: the one of the test configuration
\* (keyword, extension, critical pattern) and the empty one
OrchRules ==
    {r \in RuleSets :
        \/ r = [keywords |-> {<<"s","e","c">>}, file_extensions |-> ExtensionChoices,
                patterns |-> {<< <<"*","*">>, <<"c","f","*">> >>}]
        \/ r = [keywords |-> {}, file_extensions |-> {}, patterns |-> {}]}

\* config['profiles']: "documents" with one path entry, and "empty" without paths
PathConfigs ==
    { [path |-> DocsDir, include |-> <<GlobAll>>],
      [path |-> DocsDir, include |-> <<GlobAll, GlobJs>>, exclude |-> {}],
      [path |-> DocsDir, exclude |-> {GlobTx}],
      [path |-> DocsDir, include |-> <<GlobJs>>, exclude |-> {GlobJs}] }

ProfileSets ==
    {[documents |-> [name |-> "Documents", paths |-> <<pc>>],
      empty |-> [name |-> "Empty"]] : pc \in PathConfigs}

ProfileNames == {"documents", "empty", "nonexistent"}

\* the files on disk, without repetition
Listings ==
    {l \in SeqsUpTo(OrchPaths, MaxListing) : \A m, n \in 1..Len(l) : l[m] = l[n] => m = n}

\* the statistics of a new orchestrator
NewStats ==
    [files_processed |-> 0, files_failed |-> 0, tiers_completed |-> <<>>,
     has_end_time |-> FALSE]

OrchInit ==
    /\ rules \in OrchRules
    /\ files = <<>>
    /\ classification = NotClassified
    /\ \E aws \in BOOLEAN, proton \in BOOLEAN, ps \in ProfileSets :
          orch = [constructed |-> TRUE, aws_enabled |-> aws, proton_enabled |-> proton,
                  profiles |-> ps, backup_id |-> "b1", stats |-> NewStats,
                  summary |-> [written |-> FALSE], run |-> NoRun, runs |-> 0]
    /\ \E l \in Listings, af \in BOOLEAN, lf \in BOOLEAN :
          \E v \in [Range(l) -> {"c1", "missing"}] :
              world = [listing |-> l, view |-> v, aws_fault |-> af, local_fault |-> lf]
    /\ config \in {c \in Configs : /\ ~c.compression /\ c.cleanup_source
                                   /\ c.retention_days = None}
    /\ now = 0
    /\ dirs = [i \in Ids |-> NoDir]
    /\ zips = [i \in Ids |-> NoZip]
    /\ target = NoTarget
    /\ orig = [i \in Ids |-> [dir |-> EmptyMap, zip |-> EmptyMap]]
    /\ last = [op |-> "none"]
    /\ nbackups = 0
    /\ procs = NoProcs

NextOrch == \E name \in ProfileNames : BackupProfile(name)

SpecOrch == OrchInit /\ [][NextOrch]_vars

(***************************************************************************)
(* Orchestrator: BackupOrchestrator._generate_backup_id                    *)
(***************************************************************************)
\* the wall clock advances in ticks of half a second, and starts at 00:58 of
\* some hour
TicksPerSecond == 2
StartSecond == 58

\* a number below 100 as two decimal digits (%M, %S)
Digit(n) == <<"0","1","2","3","4","5","6","7","8","9">>[n + 1]
TwoDigits(n) == <<Digit(n \div 10), Digit(n % 10)>>

\* strftime('%Y%m%d-%H%M%S') of the time t ticks after the start: the fraction
\* of a second is dropped; of the date and hour, which do not change here, only
\* the minute and the second are kept
StrfTime(t) ==
    LET s == StartSecond + (t \div TicksPerSecond)
    IN  TwoDigits((s \div 60) % 60) \o TwoDigits(s % 60)

\* _generate_backup_id at time t: f"backup-{timestamp}"
GenerateBackupId(t) == <<"b", "-">> \o StrfTime(t)

IdsInit ==
    /\ orch = [constructed |-> FALSE, ids |-> <<>>]
    /\ world = [listing |-> <<>>, ticks |-> 0]
    /\ rules \in OrchRules
    /\ files = <<>>
    /\ classification = NotClassified
    /\ ManagerIdle

\* BackupOrchestrator(config_path): __init__ takes the backup id of the new
\* orchestrator from _generate_backup_id
Construct ==
    /\ Len(orch.ids) < MaxIds
    /\ orch' = [constructed |-> TRUE,
                ids |-> Append(orch.ids, GenerateBackupId(world.ticks))]
    /\ UNCHANGED <<world, classifierVars, managerVars, procs>>

\* a further call of _generate_backup_id on a constructed orchestrator
GenerateAgain ==
    /\ orch.constructed
    /\ Len(orch.ids) < MaxIds
    /\ orch' = [orch EXCEPT !.ids = Append(@, GenerateBackupId(world.ticks))]
    /\ UNCHANGED <<world, classifierVars, managerVars, procs>>

\* half a second passes
ClockTick ==
    /\ world.ticks < MaxIdTicks
    /\ world' = [world EXCEPT !.ticks = @ + 1]
    /\ UNCHANGED <<orch, classifierVars, managerVars, procs>>

NextIds == Construct \/ GenerateAgain \/ ClockTick

SpecIds == IdsInit /\ [][NextIds]_vars

(***************************************************************************)
(* Concurrent calls on one backup directory, statement by statement        *)
(*                                                                         *)
(* Two managers with different backup ids run backup_files and a third     *)
(* runs restore_files, all on the same backup directory and with the same  *)
(* configuration. A step is one statement (or one pass of a loop) that     *)
(* reads or writes the file system; the steps of the three calls           *)
(* interleave in any order, and the clock may advance between any two.     *)
(***************************************************************************)
\* the two backup_files calls, the backup id of each manager and its file list
Runs == {"A", "B"}
RunId(p) == IF p = "A" THEN "b1" ELSE "b2"
RunFiles(p) ==
    IF p = "A" THEN << << <<"a">>, <<"x">> >>, << <<"b">>, <<"x">> >> >>
    ELSE << << <<"a">>, <<"x">> >> >>

\* every source file is a regular file throughout
RunKind == "c1"

\* the backup id handed to restore_files
RestoredId == "b1"

\* the variables no step of these calls writes
raceFrame == <<config, orig, last, nbackups, files, rules, classification, orch, world>>

\* the local variables of a backup_files call before its first statement
NewRun(p) ==
    [pc |-> "start", id |-> RunId(p), fs |-> RunFiles(p), i |-> 1, records |-> <<>>,
     successful_files |-> 0, timestamp |-> 0, zip_time |-> 0, cutoff_time |-> 0, k |-> 1]

\* the local variables of the restore_files call before its first statement;
\* at_rest records whether the backup_files call of the restored id had returned
\* when restore_files looked for the snapshot, and intact whether what it found
\* then held the metadata and every file that call had stored
NewRestore ==
    [pc |-> "start", id |-> RestoredId, found |-> "none", at_rest |-> FALSE,
     intact |-> FALSE,
     metadata |-> NoMeta, j |-> 1, count |-> 0, ret |-> FALSE]

\* <id>/ as backup_path.mkdir creates it
EmptyDir == [exists |-> TRUE, files |-> EmptyMap, meta |-> NoMeta]

\* where backup_files goes after _compress_backup, and after writing the metadata
AfterCompress == IF config.retention_days.set THEN "sweep" ELSE "done"
AfterMetadata(r) ==
    IF config.compression /\ r.successful_files > 0 THEN "zip" ELSE AfterCompress

\* backup_path.mkdir(parents=True, exist_ok=True) and the metadata dict with its
\* timestamp (lines 48-58)
StepMkdir(p) ==
    /\ procs[p].pc = "start"
    /\ dirs' = IF dirs[RunId(p)].exists THEN dirs ELSE [dirs EXCEPT ![RunId(p)] = EmptyDir]
    /\ procs' = [procs EXCEPT ![p].pc = "copy", ![p].timestamp = now]
    /\ UNCHANGED <<now, zips, target>>
    /\ UNCHANGED raceFrame

\* one pass of the copy loop (lines 62-101); dest_path.parent.mkdir creates
\* <id>/ again if it is gone
StepCopy(p) ==
    LET r == procs[p]
        d == IF dirs[r.id].exists THEN dirs[r.id] ELSE EmptyDir
        acc == CopyFile([stored |-> d.files, records |-> r.records,
                         successful_files |-> r.successful_files],
                        r.id, r.fs[r.i], RunKind)
    IN  /\ r.pc = "copy"
        /\ r.i <= Len(r.fs)
        /\ dirs' = IF IsRegularFile(RunKind)
                   THEN [dirs EXCEPT ![r.id] = [d EXCEPT !.files = acc.stored]]
                   ELSE dirs
        /\ procs' = [procs EXCEPT ![p].records = acc.records,
                                  ![p].successful_files = acc.successful_files,
                                  ![p].i = r.i + 1]
        /\ UNCHANGED <<now, zips, target>>
        /\ UNCHANGED raceFrame

\* the metadata file is written (lines 103-106); open() on a path whose directory
\* is gone raises FileNotFoundError, which leaves backup_files as an exception
StepMetadata(p) ==
    LET r == procs[p]
    IN  /\ r.pc = "copy"
        /\ r.i > Len(r.fs)
        /\ IF ~dirs[r.id].exists
           THEN /\ procs' = [procs EXCEPT ![p].pc = "raised"]
                /\ UNCHANGED dirs
           ELSE /\ dirs' = [dirs EXCEPT ![r.id].meta =
                               [exists |-> TRUE, backup_id |-> r.id, profile |-> Profile,
                                timestamp |-> r.timestamp, files_count |-> Len(r.fs),
                                files |-> r.records]]
                /\ procs' = [procs EXCEPT ![p].pc = AfterMetadata(r)]
        /\ UNCHANGED <<now, zips, target>>
        /\ UNCHANGED raceFrame

\* _compress_backup up to the archive (lines 129-146): rglob over a directory
\* that is gone yields nothing, and the archive is written without entries
StepZip(p) ==
    LET r == procs[p]
        d == IF dirs[r.id].exists THEN dirs[r.id]
             ELSE [exists |-> FALSE, files |-> EmptyMap, meta |-> NoMeta]
    IN  /\ r.pc = "zip"
        /\ zips' = [zips EXCEPT ![r.id] =
                       CompressBackup(d, zips[r.id], FALSE, now, [result |-> "ok"]).zip]
        /\ procs' = [procs EXCEPT ![p].pc = IF config.cleanup_source THEN "cleanup"
                                            ELSE AfterCompress,
                                  ![p].zip_time = now]
        /\ UNCHANGED <<now, dirs, target>>
        /\ UNCHANGED raceFrame

\* shutil.rmtree(backup_path) of _compress_backup (lines 149-151); on a directory
\* that is gone it raises an OSError that line 155 catches
StepCleanup(p) ==
    LET r == procs[p]
    IN  /\ r.pc = "cleanup"
        /\ dirs' = [dirs EXCEPT ![r.id] = NoDir]
        /\ procs' = [procs EXCEPT ![p].pc = AfterCompress]
        /\ UNCHANGED <<now, zips, target>>
        /\ UNCHANGED raceFrame

\* the cutoff of _cleanup_old_backups (line 163)
StepSweepStart(p) ==
    LET r == procs[p]
    IN  /\ r.pc = "sweep"
        /\ procs' = [procs EXCEPT
                        ![p].pc = "sweepdirs",
                        ![p].k = 1,
                        ![p].cutoff_time = now - config.retention_days.days * TicksPerDay]
        /\ UNCHANGED <<now, dirs, zips, target>>
        /\ UNCHANGED raceFrame

\* one pass of the directory loop of _cleanup_old_backups (lines 165-185)
StepSweepDir(p) ==
    LET r == procs[p]
        i == IterDir[r.k]
        o == SweepDir(dirs[i], r.cutoff_time)
    IN  /\ r.pc = "sweepdirs"
        /\ dirs' = IF o = "remove" THEN [dirs EXCEPT ![i] = NoDir] ELSE dirs
        /\ procs' = [procs EXCEPT
                        ![p].pc = IF o = "raise" THEN "raised"
                                  ELSE IF r.k = Len(IterDir) THEN "sweepzips"
                                  ELSE "sweepdirs",
                        ![p].k = r.k + 1]
        /\ UNCHANGED <<now, zips, target>>
        /\ UNCHANGED raceFrame

\* the archive loop of _cleanup_old_backups: every archive whose mtime is before
\* the cutoff is unlinked
SweepZips(zs, cutoff_time) ==
    [i \in Ids |-> IF zs[i].exists /\ zs[i].mtime < cutoff_time THEN NoZip ELSE zs[i]]

\* the archive loop (lines 188-192) and the return of backup_files (line 120)
StepSweepZips(p) ==
    LET r == procs[p]
    IN  /\ r.pc = "sweepzips"
        /\ zips' = SweepZips(zips, r.cutoff_time)
        /\ procs' = [procs EXCEPT ![p].pc = "done"]
        /\ UNCHANGED <<now, dirs, target>>
        /\ UNCHANGED raceFrame

\* the directory or archive of the restored id holds the metadata and as many
\* files as its backup_files call counted as stored
SnapshotIntact(found) ==
    LET s == IF found = "zip" THEN zips[RestoredId] ELSE dirs[RestoredId]
    IN  /\ found # "none"
        /\ s.meta.exists
        /\ Cardinality(DOMAIN s.files) = procs["A"].successful_files

\* restore_files looks for the archive, then for the directory (lines 207-218)
StepRestoreFind ==
    LET r == procs["R"]
        found == IF zips[r.id].exists THEN "zip"
                 ELSE IF dirs[r.id].exists THEN "dir" ELSE "none"
    IN  /\ r.pc = "start"
        /\ procs' = [procs EXCEPT
                        !["R"].pc = CASE found = "zip" -> "zip"
                                      [] found = "dir" -> "dirmeta"
                                      [] OTHER -> "done",
                        !["R"].found = found,
                        !["R"].at_rest = (procs["A"].pc = "done"),
                        !["R"].intact = SnapshotIntact(found)]
        /\ UNCHANGED <<now, dirs, zips, target>>
        /\ UNCHANGED raceFrame

\* _restore_from_zip: the target is created, then ZipFile() opens the archive; on
\* an archive that is gone it raises FileNotFoundError, which restore_files
\* catches at line 220 and turns into False
StepRestoreZip ==
    LET r == procs["R"]
        x == RestoreFromZip(zips[r.id], target)
    IN  /\ r.pc = "zip"
        /\ IF ~zips[r.id].exists
           THEN /\ target' = [exists |-> TRUE, files |-> target.files]
                /\ procs' = [procs EXCEPT !["R"].pc = "done", !["R"].ret = FALSE]
           ELSE /\ target' = x.target
                /\ procs' = [procs EXCEPT !["R"].pc = "done", !["R"].ret = x.ret,
                                          !["R"].count = x.count]
        /\ UNCHANGED <<now, dirs, zips>>
        /\ UNCHANGED raceFrame

\* _restore_from_directory up to the loop (lines 258-268): the metadata file is
\* looked for and loaded, the target created
StepRestoreMeta ==
    LET r == procs["R"]
    IN  /\ r.pc = "dirmeta"
        /\ IF ~dirs[r.id].exists \/ ~dirs[r.id].meta.exists
           THEN /\ procs' = [procs EXCEPT !["R"].pc = "done", !["R"].ret = FALSE]
                /\ UNCHANGED target
           ELSE /\ procs' = [procs EXCEPT !["R"].pc = "restorecopy",
                                          !["R"].metadata = dirs[r.id].meta,
                                          !["R"].j = 1]
                /\ target' = [exists |-> TRUE, files |-> target.files]
        /\ UNCHANGED <<now, dirs, zips>>
        /\ UNCHANGED raceFrame

\* one pass of the loop of _restore_from_directory (lines 270-290)
StepRestoreCopy ==
    LET r == procs["R"]
        acc == RestoreLoop([files |-> target.files, successful_restores |-> r.count,
                            written |-> {}],
                           <<r.metadata.files[r.j]>>)
    IN  /\ r.pc = "restorecopy"
        /\ r.j <= Len(r.metadata.files)
        /\ target' = [exists |-> TRUE, files |-> acc.files]
        /\ procs' = [procs EXCEPT !["R"].count = acc.successful_restores,
                                  !["R"].j = r.j + 1]
        /\ UNCHANGED <<now, dirs, zips>>
        /\ UNCHANGED raceFrame

\* return successful_restores > 0 (line 290)
StepRestoreReturn ==
    LET r == procs["R"]
    IN  /\ r.pc = "restorecopy"
        /\ r.j > Len(r.metadata.files)
        /\ procs' = [procs EXCEPT !["R"].pc = "done", !["R"].ret = (r.count > 0)]
        /\ UNCHANGED <<now, dirs, zips, target>>
        /\ UNCHANGED raceFrame

\* the configurations of the concurrent calls: an enabled manager, with
\* cleanup_source left at its default when nothing is compressed
RaceConfigs ==
    {c \in Configs : c.enabled /\ (~c.compression => c.cleanup_source)}

RaceInit ==
    /\ config \in RaceConfigs
    /\ now = 0
    /\ dirs = [i \in Ids |-> NoDir]
    /\ zips = [i \in Ids |-> NoZip]
    /\ target = NoTarget
    /\ orig = [i \in Ids |-> [dir |-> EmptyMap, zip |-> EmptyMap]]
    /\ last = [op |-> "none"]
    /\ nbackups = 0
    /\ files = <<>>
    /\ rules = [keywords |-> {}, file_extensions |-> {}, patterns |-> {}]
    /\ classification = NotClassified
    /\ OrchIdle
    /\ procs = [A |-> NewRun("A"), B |-> NewRun("B"), R |-> NewRestore]

NextRace ==
    \/ \E p \in Runs :
          \/ StepMkdir(p)
          \/ StepCopy(p)
          \/ StepMetadata(p)
          \/ StepZip(p)
          \/ StepCleanup(p)
          \/ StepSweepStart(p)
          \/ StepSweepDir(p)
          \/ StepSweepZips(p)
    \/ StepRestoreFind
    \/ StepRestoreZip
    \/ StepRestoreMeta
    \/ StepRestoreCopy
    \/ StepRestoreReturn
    \/ Tick

SpecRace == RaceInit /\ [][NextRace]_vars

(***************************************************************************)
(* Properties of backup_files and restore_files                            *)
(***************************************************************************)
\* the positions of the FileRecords with status success in a metadata dict
SuccessRecords(m) == {n \in 1..Len(m.files) : m.files[n].status = "success"}

BackupReturned == last.op = "backup" /\ last.enabled /\ ~last.raised
RestoreReturned == last.op = "restore" /\ last.enabled /\ ~last.raised

\* C4: backup_files on an enabled manager returns true exactly when the metadata
\* it persisted holds at least one FileRecord with status success.
C4_TrueIffSuccessRecord ==
    BackupReturned => (last.ret <=> SuccessRecords(last.metadata) # {})

\* C5: the persisted metadata holds one FileRecord per input file, in input
\* order (files_count = number of records = number of inputs), with status
\* success for each input that was a regular file and was copied and status
\* failed with an error tag for each other input.
C5_OneRecordPerInput ==
    BackupReturned =>
        LET m == last.metadata
        IN  /\ m.files_count = Len(last.files)
            /\ Len(m.files) = Len(last.files)
            /\ \A n \in 1..Len(m.files) :
                  /\ m.files[n].source = last.files[n]
                  /\ (m.files[n].status = "success") <=> IsRegularFile(last.kinds[n])
                  /\ (m.files[n].status # "success") =>
                        /\ m.files[n].status = "failed"
                        /\ "error_type" \in DOMAIN m.files[n]

\* C6: a restore_files of the id of a snapshot that backup_files has just created
\* with at least one success FileRecord returns true.
C6_RestoreAfterBackupSucceeds ==
    [][ ( /\ BackupReturned
          /\ SuccessRecords(last.metadata) # {}
          /\ last'.op = "restore"
          /\ last'.id = last.id )
        => last'.ret ]_vars

\* the metadata of the snapshot the last restore_files read its files from
RestoredMetadata ==
    IF last.from = "zip" THEN zips[last.id].meta ELSE dirs[last.id].meta

\* C7: the number of files a restore reports as restored equals the number of
\* success FileRecords of the snapshot's metadata, from the directory and from
\* the archive alike.
C7_CountEqualsSuccessRecords ==
    ( /\ RestoreReturned
      /\ last.from # "none"
      /\ RestoredMetadata.exists
      /\ SuccessRecords(RestoredMetadata) # {} )
    => last.count = Cardinality(SuccessRecords(RestoredMetadata))

\* C8: every file a restore from an archive wrote, the metadata file aside, holds
\* the bytes its source file had when backup_files copied it.
C8_ArchiveRoundTrip ==
    (RestoreReturned /\ last.from = "zip") =>
        \A q \in last.written \ {<<MetaName>>} :
            /\ q \in DOMAIN orig[last.id].zip
            /\ target.files[q] = orig[last.id].zip[q]

\* C8 witness: a snapshot of two files with different bytes was archived, its
\* directory removed, and both files were restored from the archive.
C8_Witness ==
    /\ RestoreReturned /\ last.from = "zip" /\ last.ret
    /\ ~dirs[last.id].exists
    /\ \E q1, q2 \in last.written \ {<<MetaName>>} : target.files[q1] # target.files[q2]

\* C9: restore_files of an id with neither <id>.zip nor <id>/ returns false,
\* writes nothing to the target directory and leaves the backup directory as it
\* was, whatever the manager's configuration.
C9_UnknownIdAlwaysFails ==
    [][ ( /\ last'.op = "restore"
          /\ ~zips[last'.id].exists
          /\ ~dirs[last'.id].exists )
        => ( /\ last'.ret = FALSE
             /\ target' = last'.before
             /\ dirs' = dirs
             /\ zips' = zips ) ]_vars

\* C9 as amended: on an enabled manager, restore_files of an id with neither
\* <id>.zip nor <id>/ returns false, writes nothing to the target directory and
\* leaves the backup directory as it was.
C9_UnknownIdFails ==
    [][ ( /\ last'.op = "restore"
          /\ last'.enabled
          /\ ~zips[last'.id].exists
          /\ ~dirs[last'.id].exists )
        => ( /\ last'.ret = FALSE
             /\ target' = last'.before
             /\ dirs' = dirs
             /\ zips' = zips ) ]_vars

\* C9 witness: a restore of an absent id has failed, beside a snapshot of another
\* id, with a target directory that holds what it held before.
C9_Witness ==
    /\ RestoreReturned /\ last.from = "none" /\ ~last.ret
    /\ ~zips[last.id].exists /\ ~dirs[last.id].exists
    /\ \E j \in Ids : dirs[j].exists \/ zips[j].exists
    /\ target = UsedTarget

SweepRan == last.op = "backup" /\ last.enabled /\ last.swept
SweepCompleted == SweepRan /\ ~last.raised

\* a stored snapshot (directory or archive) whose metadata parses and holds a
\* creation timestamp
Dated(x) == x.exists /\ x.meta.exists /\ DamageOf(x.meta) = "none"

\* a stored snapshot whose metadata file is there and cannot be parsed
Unparsable(x) == x.exists /\ x.meta.exists /\ DamageOf(x.meta) # "none"

\* C11: after a retention sweep has completed, no snapshot, loose or archived,
\* whose metadata creation timestamp is older than the cutoff (now minus
\* retention_days) remains in the backup directory.
C11_NoOldSnapshotRemains ==
    SweepCompleted =>
        \A i \in Ids :
            /\ Dated(dirs[i]) => ~(dirs[i].meta.timestamp < last.cutoff_time)
            /\ Dated(zips[i]) => ~(zips[i].meta.timestamp < last.cutoff_time)

\* C12: a retention sweep never deletes a snapshot, loose or archived, whose
\* creation timestamp is newer than the cutoff: it is there, unchanged, after
\* the sweep.
C12_NewerSnapshotKept ==
    SweepRan =>
        \A i \in Ids :
            /\ (Dated(last.before_sweep.dirs[i])
                  /\ last.before_sweep.dirs[i].meta.timestamp > last.cutoff_time)
                => dirs[i] = last.before_sweep.dirs[i]
            /\ (Dated(last.before_sweep.zips[i])
                  /\ last.before_sweep.zips[i].meta.timestamp > last.cutoff_time)
                => zips[i] = last.before_sweep.zips[i]

\* C12 witness: a completed sweep has removed the directory of one id and kept
\* the directory of another id, whose timestamp is newer than the cutoff.
C12_Witness ==
    /\ SweepCompleted
    /\ \E i, j \in Ids :
          /\ last.before_sweep.dirs[i].exists /\ ~dirs[i].exists
          /\ Dated(dirs[j]) /\ dirs[j].meta.timestamp > last.cutoff_time

\* C13: a retention sweep leaves in place every snapshot whose metadata cannot
\* be parsed, whatever its age, and goes on to the remaining snapshots: it
\* completes, and every other directory older than the cutoff is removed.
C13_UnparsableSkipped ==
    (SweepRan /\ \E i \in Ids : \/ Unparsable(last.before_sweep.dirs[i])
                                 \/ Unparsable(last.before_sweep.zips[i]))
    => /\ \A i \in Ids :
            /\ Unparsable(last.before_sweep.dirs[i]) => dirs[i] = last.before_sweep.dirs[i]
            /\ Unparsable(last.before_sweep.zips[i]) => zips[i] = last.before_sweep.zips[i]
       /\ ~last.raised
       /\ \A i \in Ids :
            (Dated(last.before_sweep.dirs[i])
               /\ last.before_sweep.dirs[i].meta.timestamp < last.cutoff_time)
            => ~dirs[i].exists

(***************************************************************************)
(* Properties of backup_profile                                            *)
(***************************************************************************)
\* the step is a backup_profile call, and orch'.run says what it did
ProfileRan == orch'.runs # orch.runs

\* the tiers whose list in a classification is not empty, in dispatch order
AssignedTiers(cl) ==
    LET NonEmpty(t) == cl[t] # <<>>
    IN  SelectSeq(<<"aws_primary", "proton_sensitive", "local_airgapped">>, NonEmpty)

\* C14: backup_profile on an existing profile for which no file is discovered
\* returns true with files_processed = 0, calls no tier and creates no snapshot.
C14_NoFilesIsSuccess ==
    [][ ( /\ ProfileRan
          /\ orch'.run.name \in DOMAIN orch.profiles
          /\ orch'.run.discovered = <<>> )
        => ( /\ orch'.run.ret = TRUE
             /\ orch'.stats.files_processed = 0
             /\ orch'.run.calls = <<>>
             /\ dirs' = dirs /\ zips' = zips /\ nbackups' = nbackups ) ]_vars

\* C15: backup_profile for a profile name that the configuration does not hold
\* returns false before discovery, classification and dispatch: no tier is
\* called, no snapshot or summary is written, the statistics are unchanged.
C15_UnknownProfileFails ==
    [][ ( /\ ProfileRan
          /\ orch'.run.name \notin DOMAIN orch.profiles )
        => ( /\ orch'.run.ret = FALSE
             /\ orch'.run.discovered = <<>>
             /\ ~orch'.run.classified
             /\ orch'.run.calls = <<>>
             /\ orch'.stats = orch.stats
             /\ orch'.summary = orch.summary
             /\ files' = files /\ classification' = classification
             /\ dirs' = dirs /\ zips' = zips /\ nbackups' = nbackups /\ last' = last ) ]_vars

\* C15 witness: after a run that processed files and wrote a summary, a run for
\* an unknown profile has returned false and the statistics still show the files.
C15_Witness ==
    /\ orch.constructed /\ orch.run.returned
    /\ orch.run.name = "nonexistent" /\ orch.run.ret = FALSE
    /\ orch.runs = 2
    /\ orch.stats.files_processed > 0 /\ orch.summary.written

\* C16: when at least one file is discovered, the result of backup_profile is
\* the conjunction of the outcomes of the tiers it called, and false when it
\* called none.
C16_ResultIsConjunction ==
    (orch.constructed /\ orch.run.returned /\ orch.run.discovered # <<>>) =>
        (orch.run.ret <=> ( /\ orch.run.calls # <<>>
                            /\ \A n \in 1..Len(orch.run.calls) : orch.run.calls[n].outcome ))

\* C16 witness: a run called three tiers, one returned true and another false,
\* and the run returned false.
C16_Witness ==
    /\ orch.constructed /\ orch.run.returned
    /\ Len(orch.run.calls) = 3
    /\ \E m, n \in 1..3 : orch.run.calls[m].outcome /\ ~orch.run.calls[n].outcome
    /\ ~orch.run.ret

\* C17: in one backup_profile run every tier whose list is not empty is called
\* exactly once, in dispatch order, with its list and the profile name, whatever
\* the earlier tiers returned; a tier whose list is empty is not called.
C17_EachAssignedTierOnce ==
    (orch.constructed /\ orch.run.returned /\ orch.run.discovered # <<>>) =>
        LET cl == ClassifyData(orch.run.discovered, rules)
            expected == AssignedTiers(cl)
            calls == orch.run.calls
        IN  /\ Len(calls) = Len(expected)
            /\ \A n \in 1..Len(calls) :
                  /\ calls[n].tier = expected[n]
                  /\ calls[n].files = cl[expected[n]]
                  /\ calls[n].profile = orch.run.name

\* C17 witness: the first of three tiers failed and the other two were called,
\* the local one reaching backup_files with its list.
C17_Witness ==
    /\ orch.constructed /\ orch.run.returned
    /\ Len(orch.run.calls) = 3
    /\ ~orch.run.calls[1].outcome
    /\ orch.run.calls[3].tier = "local_airgapped"
    /\ last.op = "backup" /\ last.enabled /\ last.files = orch.run.calls[3].files

(***************************************************************************)
(* Properties of a disabled manager                                        *)
(***************************************************************************)
\* C18: on a manager configured with enabled = false, backup_files and
\* restore_files return true for every input and change neither the backup
\* directory nor the restore target; no sweep runs.
C18_DisabledIsNoOp ==
    [][ ( /\ last'.op \in {"backup", "restore"}
          /\ ~config.enabled
          /\ <<last', nbackups'>> # <<last, nbackups>> )
        => ( /\ last'.ret = TRUE
             /\ ~last'.raised
             /\ dirs' = dirs /\ zips' = zips /\ now' = now
             /\ last'.op = "backup" => target' = target
             /\ last'.op = "restore" => target' = last'.before ) ]_vars

\* C18 witness: a restore on a disabled manager has returned true into a target
\* directory that holds what it held before, after a backup that stored nothing.
C18_Witness ==
    /\ ~config.enabled
    /\ last.op = "restore" /\ last.ret
    /\ target = UsedTarget
    /\ nbackups > 0
    /\ \A i \in Ids : ~dirs[i].exists /\ ~zips[i].exists

(***************************************************************************)
(* Properties of list_backups and of damaged metadata                      *)
(***************************************************************************)
\* a metadata file that json.load turns into an object
Readable(m) == m.exists /\ DamageOf(m) \notin {"bad_json", "bad_utf8", "not_dict"}

\* the stored snapshots with readable metadata, as (id, is an archive) pairs
ReadableSnapshots ==
    {<<i, FALSE>> : i \in {j \in Ids : dirs[j].exists /\ Readable(dirs[j].meta)}}
    \cup {<<i, TRUE>> : i \in {j \in Ids : zips[j].exists /\ Readable(zips[j].meta)}}

\* the metadata a summary of the list was read from
StoredMeta(e) == IF e.compressed THEN zips[e.backup_id].meta ELSE dirs[e.backup_id].meta

\* C19: list_backups returns one summary for every stored snapshot with
\* readable metadata, a directory tagged compressed = false and an archive
\* compressed = true, ordered by creation timestamp descending (the empty list for
\* an empty backup directory); it does not change the backup directory, and a
\* second call right after the first returns the same list.
C19_ListsEveryReadableSnapshot ==
    [][ (last'.op = "list") =>
          LET bs == last'.backups
          IN  /\ ~last'.raised
              /\ dirs' = dirs /\ zips' = zips
              /\ {<<bs[n].backup_id, bs[n].compressed>> : n \in 1..Len(bs)} = ReadableSnapshots
              /\ Len(bs) = Cardinality(ReadableSnapshots)
              /\ \A n \in 1..Len(bs) : bs[n].metadata = StoredMeta(bs[n])
              /\ \A m, n \in 1..Len(bs) :
                    (m < n /\ DamageOf(bs[m].metadata) = "none"
                           /\ DamageOf(bs[n].metadata) = "none")
                    => bs[m].metadata.timestamp >= bs[n].metadata.timestamp
              /\ (last.op = "list") => last'.backups = last.backups ]_vars

\* the snapshot restore_files(id) reads: the archive if there is one, else the
\* directory
RestoreSource(id) == IF zips[id].exists THEN zips[id] ELSE dirs[id]

\* C20: damaged metadata of one snapshot is not fatal: list_backups raises
\* nothing and still returns every snapshot with readable metadata, and
\* restore_files of a snapshot whose metadata is damaged returns false and raises
\* nothing.
C20_DamageIsNotFatal ==
    /\ (last.op = "list") =>
          /\ ~last.raised
          /\ {<<last.backups[n].backup_id, last.backups[n].compressed>> :
                 n \in 1..Len(last.backups)} = ReadableSnapshots
    /\ ( /\ last.op = "restore" /\ last.enabled
         /\ RestoreSource(last.id).exists
         /\ RestoreSource(last.id).meta.exists
         /\ ~Readable(RestoreSource(last.id).meta) )
       => (~last.raised /\ ~last.ret)

(***************************************************************************)
(* Properties of _generate_backup_id                                       *)
(***************************************************************************)
\* C21: any two calls of _generate_backup_id, by one orchestrator or by two
\* orchestrators constructed one after the other, return different identifiers.
C21_IdsUnique ==
    \A m, n \in 1..Len(orch.ids) : m # n => orch.ids[m] # orch.ids[n]

(***************************************************************************)
(* Properties of the sweep inside backup_files                             *)
(***************************************************************************)
\* C25: within backup_files the retention sweep runs only when retention_days is
\* set and the backup stored at least one file, and never after a backup in which
\* every file failed.
C25_SweepOnlyAfterSuccess ==
    SweepRan => (config.retention_days.set /\ last.successful_files > 0)

\* C28: when backup_files on an enabled manager returns true, the snapshot of
\* its own backup id is in the backup directory, as a directory with its
\* metadata file or as an archive, for every retention_days including 0.
C28_OwnSnapshotSurvives ==
    (BackupReturned /\ last.enabled /\ last.ret) =>
        \/ dirs[last.id].exists /\ dirs[last.id].meta.exists
        \/ zips[last.id].exists

(***************************************************************************)
(* Properties of the metadata against the stored files                     *)
(***************************************************************************)
\* the relative paths of the success records of a metadata dict
SuccessDestinations(m) == {m.files[n].destination.rel : n \in SuccessRecords(m)}

\* C29: for every directory snapshot at rest the set of files stored under
\* <id>/ (the metadata file aside) equals the set of destinations of the success
\* records of its metadata, and the number of success records of a backup equals
\* the count backup_files used for its return value.
C29_MetadataMatchesStored ==
    /\ \A i \in Ids :
          (dirs[i].exists /\ dirs[i].meta.exists)
          => DOMAIN dirs[i].files = SuccessDestinations(dirs[i].meta)
    /\ BackupReturned
          => last.successful_files = Cardinality(SuccessRecords(last.metadata))

(***************************************************************************)
(* Properties of the two restore layouts                                   *)
(***************************************************************************)
\* the success records of metadata m whose stored file is there and whose source
\* has the base name nm
RecordsNamed(m, nm) ==
    {n \in SuccessRecords(m) : /\ Name(m.files[n].source) = nm
                               /\ StoredExists(m.files[n].destination)}

\* the largest number of a non-empty set of numbers
Latest(S) == CHOOSE n \in S : \A k \in S : k <= n

\* C24: a restore from a directory writes each success record to
\* target/<base name of the source>, so of several records with one base name
\* the last one's bytes are what the target holds; a restore from an archive
\* writes each entry to target/<relative path stored in the archive>.
C24_RestoreLayouts ==
    /\ (RestoreReturned /\ last.from = "dir" /\ last.count > 0) =>
          LET m == dirs[last.id].meta
              names == {Name(m.files[n].source) :
                           n \in {k \in SuccessRecords(m) :
                                     StoredExists(m.files[k].destination)}}
          IN  /\ last.written = {<<nm>> : nm \in names}
              /\ \A nm \in names :
                    target.files[<<nm>>] =
                        dirs[last.id].files[
                            m.files[Latest(RecordsNamed(m, nm))].destination.rel]
              /\ \A q \in DOMAIN target.files \ last.written :
                    q \in DOMAIN last.before.files
                    /\ target.files[q] = last.before.files[q]
    /\ (RestoreReturned /\ last.from = "zip") =>
          LET entries == ZipEntries(zips[last.id])
          IN  /\ last.written = DOMAIN entries
              /\ \A q \in DOMAIN entries : target.files[q] = entries[q]
              /\ \A q \in DOMAIN zips[last.id].files :
                    q \in DOMAIN orig[last.id].zip

\* C24 witness: a directory snapshot holds /a/x and /b/x with different bytes,
\* both records are success, and the restore has left one file x in the target,
\* with the bytes of the second record.
C24_Witness ==
    /\ RestoreReturned /\ last.from = "dir" /\ last.count = 2
    /\ last.before = NoTarget
    /\ DOMAIN target.files = {<<<<"x">>>>}
    /\ LET m == dirs[last.id].meta
       IN  /\ Len(m.files) = 2
           /\ m.files[1].source # m.files[2].source
           /\ dirs[last.id].files[m.files[1].destination.rel]
                 # dirs[last.id].files[m.files[2].destination.rel]
           /\ target.files[<<<<"x">>>>] = dirs[last.id].files[m.files[2].destination.rel]

(***************************************************************************)
(* Properties of the classification inside backup_profile                  *)
(***************************************************************************)
\* C27: under every rule set _classify_data puts each input file into at least
\* one tier, so a backup_profile run that discovered a file calls at least one
\* tier; "no tier called, result false" does not occur.
C27_DispatchNeverVacuous ==
    (orch.constructed /\ orch.run.returned /\ orch.run.discovered # <<>>) =>
        /\ \A r \in RuleSets :
              LET cl == ClassifyData(orch.run.discovered, r)
              IN  Range(orch.run.discovered) \subseteq
                      Range(cl.aws_primary) \cup Range(cl.proton_sensitive)
                          \cup Range(cl.local_airgapped)
        /\ \A n \in 1..Len(orch.run.discovered) :
              \E k \in 1..Len(orch.run.calls) :
                  orch.run.discovered[n] \in Range(orch.run.calls[k].files)
        /\ orch.run.calls # <<>>

\* C27 witness: under the empty rule set a run discovered files and called the
\* AWS tier alone, with all of them.
C27_Witness ==
    /\ orch.constructed /\ orch.run.returned
    /\ rules = [keywords |-> {}, file_extensions |-> {}, patterns |-> {}]
    /\ Len(orch.run.discovered) = 2
    /\ Len(orch.run.calls) = 1
    /\ orch.run.calls[1].tier = "aws_primary"
    /\ orch.run.calls[1].files = orch.run.discovered

(***************************************************************************)
(* Properties of the orchestrator's statistics                             *)
(***************************************************************************)
\* C30: no backup_profile call changes files_failed from 0: every summary a run
\* writes has files_failed = 0, whatever failed in the tiers, and files_processed
\* equal to the number of discovered files.
C30_FilesFailedStaysZero ==
    [][ ProfileRan =>
          /\ orch'.stats.files_failed = 0
          /\ IF orch'.run.classified
             THEN /\ orch'.summary.written
                  /\ orch'.summary.files_failed = 0
                  /\ orch'.summary.files_processed = Len(orch'.run.discovered)
             ELSE orch'.summary = orch.summary ]_vars

\* C30 witness: a run whose local tier recorded a failed file and returned
\* false has written a summary with files_failed = 0 and files_processed = 1.
C30_Witness ==
    /\ orch.constructed /\ orch.run.returned /\ orch.run.classified
    /\ ~orch.run.ret
    /\ last.op = "backup" /\ last.enabled
    /\ \E n \in 1..Len(last.metadata.files) : last.metadata.files[n].status = "failed"
    /\ orch.summary.written
    /\ orch.summary.files_failed = 0
    /\ orch.summary.files_processed = 1

(***************************************************************************)
(* Properties of concurrent calls on one backup directory                  *)
(***************************************************************************)
\* a backup_files call that is copying, about to write its metadata, or
\* compressing
InProgress(q) == procs[q].pc \in {"copy", "zip", "cleanup"}

\* a backup_files call inside _cleanup_old_backups, past the cutoff
Sweeping(p) == procs[p].pc \in {"sweepdirs", "sweepzips"}

\* the step taken is a statement of call p
StepOf(p) == procs'[p] # procs[p]

\* the step taken leaves the directory and the archive of call q as they were
Untouched(q) ==
    /\ dirs'[RunId(q)] = dirs[RunId(q)]
    /\ zips'[RunId(q)] = zips[RunId(q)]

\* C23: a statement of the sweep that ends one backup_files call never deletes or
\* alters the directory or the archive of a different call that is still copying,
\* writing its metadata or compressing, whatever retention_days is.
C23_SweepSparesRunsInProgress ==
    [][\A p \in Runs : \A q \in Runs \ {p} :
          (Sweeping(p) /\ StepOf(p) /\ InProgress(q)) => Untouched(q)]_vars

\* what call p stores when nothing else touches the backup directory: the files
\* its copy loop writes and the metadata with its own timestamp and records
AloneDir(p) ==
    LET r == procs[p]
        acc == CopyLoop([stored |-> EmptyMap, records |-> <<>>, successful_files |-> 0],
                        r.id, r.fs, [f \in SrcPaths |-> RunKind])
    IN  [exists |-> TRUE, files |-> acc.stored,
         meta |-> [exists |-> TRUE, backup_id |-> r.id, profile |-> Profile,
                   timestamp |-> r.timestamp, files_count |-> Len(r.fs),
                   files |-> acc.records]]

\* whether call p compresses, and what its own sweep removes of its own snapshot
Compresses(p) == config.compression /\ procs[p].successful_files > 0
SweepsOwnDir(p) ==
    config.retention_days.set /\ procs[p].timestamp < procs[p].cutoff_time
SweepsOwnZip(p) ==
    config.retention_days.set /\ procs[p].zip_time < procs[p].cutoff_time

\* the directory and the archive call p leaves behind when it runs alone
AloneFinalDir(p) ==
    IF (Compresses(p) /\ config.cleanup_source) \/ SweepsOwnDir(p) THEN NoDir
    ELSE AloneDir(p)
AloneFinalZip(p) ==
    IF ~Compresses(p) \/ SweepsOwnZip(p) THEN NoZip
    ELSE [exists |-> TRUE, files |-> AloneDir(p).files, meta |-> AloneDir(p).meta,
          mtime |-> procs[p].zip_time]

\* C22: two backup_files calls with different backup ids, interleaved statement by
\* statement, do not collide: no statement of one changes the directory or the
\* archive of the other, and when a call returns its own directory and archive
\* hold what they would hold had the call run alone.
C22_RunsDoNotCollide ==
    [][\A p \in Runs : \A q \in Runs \ {p} :
          /\ StepOf(p) => Untouched(q)
          /\ (StepOf(p) /\ procs'[p].pc = "done")
                => /\ dirs'[RunId(p)] = AloneFinalDir(p)'
                   /\ zips'[RunId(p)] = AloneFinalZip(p)']_vars

\* restore_files has returned after finding the whole snapshot of a backup_files
\* call that had itself returned
RestoredAtRest ==
    /\ procs["R"].pc = "done"
    /\ procs["R"].found # "none"
    /\ procs["R"].at_rest
    /\ procs["R"].intact

\* restore_files failed, or restored fewer files than the snapshot has success
\* records
RestoreShort ==
    \/ ~procs["R"].ret
    \/ procs["R"].found = "dir" /\ procs["R"].count < procs["A"].successful_files

====
